---- MODULE Spec2Model ----
(* Channel resolution of radiod_client.py: discovery snapshot, lookup by      *)
(* frequency, and the get-or-create reconciliation against the radio daemon;  *)
(* the request, create, remove and discover operations with the command line  *)
(* of main; and the address discovery of discover_multicast.py.               *)
(*                                                                            *)
(* Frequencies are Python floats in the source.  Here a frequency is an       *)
(* integer number of 1/Scale Hz, so that int() (truncation) and the float     *)
(* comparison against the tolerance stay distinct operations.                 *)
EXTENDS Integers, Sequences, FiniteSets, TLC

\* ---------------------------------------------------------------- bounds
\* Resolution of a frequency value: units per Hz.
Scale == 2
\* Largest number of channels the daemon advertises in a lookup run.
MaxSnap == 3

\* ------------------------------------------------------- program constants
DEFAULT_RTP_DESTINATION == "239.1.2.100"
DEFAULT_PRESET == "am"
DEFAULT_SAMPLE_RATE == 12000

\* Python None / falsy value of an optional string, resp. integer, argument.
NoStr == ""
NoInt == 0

Hz(n) == n * Scale
\* The frequency the repository's test tunes to (10 MHz) and its neighbours.
F0 == Hz(10000000)

Abs(x) == IF x < 0 THEN -x ELSE x

\* Python int(float): truncation toward zero.
ToInt(v) == IF v >= 0 THEN v \div Scale ELSE -((-v) \div Scale)

VARIABLES
    daemon,         \* the channels the daemon currently advertises (set of records)
    look,           \* the last direct call of find_channel_by_frequency
    pending,        \* commands the daemon accepted and has not yet acted on
    nextSsrc,       \* the next SSRC the daemon assigns to a requested channel
    libHasRequest,  \* whether the installed ka9q has RadiodControl.request_channel
    call,           \* per caller: the operation in progress and its locals
    prev,           \* per caller: summary of the call it completed last
    touched,        \* per caller: the channel set changed since its last call ended
    ncalls          \* operations started so far

sysvars == <<pending, nextSsrc, libHasRequest, call, prev, touched, ncalls>>
vars == <<daemon, look, pending, nextSsrc, libHasRequest, call, prev, touched, ncalls>>

\* A channel as ka9q's discovery reports it (the attributes the client reads).
Channel(ssrc, frequency, preset, sample_rate, multicast_address) ==
    [ssrc |-> ssrc, frequency |-> frequency, preset |-> preset,
     sample_rate |-> sample_rate, multicast_address |-> multicast_address]

\* channel_info built by discover_channels for one observed channel.
ChannelInfo(ch) ==
    [ssrc |-> ch.ssrc, preset |-> ch.preset, frequency_hz |-> ch.frequency,
     sample_rate |-> ch.sample_rate, multicast_address |-> ch.multicast_address]

\* All orders in which one discovery pass can observe the channel set S
\* (the iteration order of the dict discover_channels_native returns).
Orders(S) ==
    LET n == Cardinality(S)
    IN  {s \in [1..n -> S] : \A i, j \in 1..n : i # j => s[i] # s[j]}

\* What one call of the ka9q discovery yields: it raises, or it returns the
\* advertised channels in some order.
Observations(S) ==
    {[ok |-> FALSE, chans |-> << >>]} \cup {[ok |-> TRUE, chans |-> s] : s \in Orders(S)}

\* Mutant of LastIndex: the first channel observed keeps the index entry.
FirstIndex(infos, k) ==
    CHOOSE i \in DOMAIN infos :
        /\ ToInt(infos[i].frequency_hz) = k
        /\ \A j \in DOMAIN infos : ToInt(infos[j].frequency_hz) = k => i <= j

LastIndex(infos, k) ==
    CHOOSE i \in DOMAIN infos :
        /\ ToInt(infos[i].frequency_hz) = k
        /\ \A j \in DOMAIN infos : ToInt(infos[j].frequency_hz) = k => j <= i

\* Mutant of DiscoverChannels: the failure of discovery leaves no reason.
DiscoverChannelsNoNote(obs, rtp_destination) ==
    IF ~obs.ok
    THEN [multicast_address |-> "unknown", channel_count |-> 0,
          channels |-> << >>, channels_by_freq |-> << >>, note |-> NoStr]
    ELSE LET keep(ch) == ~(rtp_destination # NoStr /\ ch.multicast_address # rtp_destination)
             kept == SelectSeq(obs.chans, keep)
             infos == [i \in DOMAIN kept |-> ChannelInfo(kept[i])]
             keys == {ToInt(infos[i].frequency_hz) : i \in DOMAIN infos}
         IN  [multicast_address |-> "resolved", channel_count |-> Len(infos),
              channels |-> infos,
              channels_by_freq |-> [k \in keys |-> infos[LastIndex(infos, k)]],
              note |-> IF Len(infos) = 0
                       THEN "No channels discovered via multicast (may be remote client)"
                       ELSE NoStr]

\* Mutant of DiscoverChannels: the destination filter is not applied.
DiscoverChannelsUnfiltered(obs, rtp_destination) ==
    IF ~obs.ok
    THEN [multicast_address |-> "unknown", channel_count |-> 0,
          channels |-> << >>, channels_by_freq |-> << >>,
          note |-> "Multicast discovery not available (remote client or network issue)"]
    ELSE LET infos == [i \in DOMAIN obs.chans |-> ChannelInfo(obs.chans[i])]
             keys == {ToInt(infos[i].frequency_hz) : i \in DOMAIN infos}
         IN  [multicast_address |-> "resolved", channel_count |-> Len(infos),
              channels |-> infos,
              channels_by_freq |-> [k \in keys |-> infos[LastIndex(infos, k)]],
              note |-> IF Len(infos) = 0
                       THEN "No channels discovered via multicast (may be remote client)"
                       ELSE NoStr]

\* discover_channels: the snapshot dict.  `channels` keeps the dict's insertion
\* order; `channels_by_freq` is keyed by int(frequency), later entries overwrite.
DiscoverChannels(obs, rtp_destination) ==
    IF ~obs.ok
    THEN [multicast_address |-> "unknown", channel_count |-> 0,
          channels |-> << >>, channels_by_freq |-> << >>,
          note |-> "Multicast discovery not available (remote client or network issue)"]
    ELSE LET keep(ch) == ~(rtp_destination # NoStr /\ ch.multicast_address # rtp_destination)
             kept == SelectSeq(obs.chans, keep)
             infos == [i \in DOMAIN kept |-> ChannelInfo(kept[i])]
             keys == {ToInt(infos[i].frequency_hz) : i \in DOMAIN infos}
         IN  [multicast_address |-> "resolved", channel_count |-> Len(infos),
              channels |-> infos,
              channels_by_freq |-> [k \in keys |-> infos[LastIndex(infos, k)]],
              note |-> IF Len(infos) = 0
                       THEN "No channels discovered via multicast (may be remote client)"
                       ELSE NoStr]

\* The fuzzy scan of find_channel_by_frequency: first entry within tolerance.
FuzzyMatch(infos, frequency_hz, tolerance_hz) ==
    LET hits == {i \in DOMAIN infos :
                    Abs(infos[i].frequency_hz - frequency_hz) <= tolerance_hz}
    IN  IF hits = {} THEN << >>
        ELSE <<infos[CHOOSE i \in hits : \A j \in hits : i <= j]>>

\* find_channel_by_frequency on a snapshot: << >> is None, <<info>> a record.
FindChannelByFrequency(discovered, frequency_hz, tolerance_hz) ==
    LET freq_int == ToInt(frequency_hz)
    IN  IF freq_int \in DOMAIN discovered.channels_by_freq
        THEN <<discovered.channels_by_freq[freq_int]>>
        ELSE FuzzyMatch(discovered.channels, frequency_hz, tolerance_hz)

\* A call of find_channel_by_frequency as the repository's test makes it:
\* the signature has no preset or sample_rate parameter, so passing either
\* raises TypeError before the body runs.
CallFind(obs, frequency_hz, rtp_destination, tolerance_hz, preset, sample_rate) ==
    IF preset # NoStr \/ sample_rate # NoInt
    THEN [outcome |-> "TypeError", result |-> << >>]
    ELSE [outcome |-> "returned",
          result |-> FindChannelByFrequency(DiscoverChannels(obs, rtp_destination),
                                            frequency_hz, tolerance_hz)]

\* ------------------------------------------------------------ lookup runs
\* Channels a lookup run draws the daemon's advertised set from: the four of
\* the repository's test (same frequency, differing preset and sample rate),
\* a closed channel (frequency 0) and neighbours of the test frequency.
Catalog ==
    { Channel(1001, F0, "iq", 24000, "239.1.2.3"),
      Channel(1002, F0, "am", 48000, "239.1.2.3"),
      Channel(1003, F0, "am", 12000, "239.1.2.3"),
      Channel(1004, F0, "am", 12000, "239.1.2.3"),
      Channel(1005, 0, "am", 12000, "239.1.2.3"),
      Channel(1006, F0 - Scale, "am", 12000, "239.1.2.3"),
      Channel(1007, F0 + 1, "am", 12000, "239.1.2.3"),
      Channel(1008, F0 + Scale + 1, "am", 12000, DEFAULT_RTP_DESTINATION) }

LookFreqs == {Hz(1), F0, F0 + 1}
LookTolerances == {0, 1, Hz(1)}
LookPresets == {NoStr, "am", "iq"}
LookRates == {NoInt, 12000, 48000, 96000}
LookDests == {NoStr, "239.1.2.3"}

\* ------------------------------------------------------------ the callers
Procs == {"a", "b"}

NoResult ==
    [status |-> "none", success |-> FALSE, mode |-> "", ssrc |-> << >>,
     frequency_hz |-> 0, multicast_address |-> NoStr, sample_rate |-> NoInt,
     preset |-> NoStr, existed |-> FALSE, note |-> NoStr, error |-> NoStr]

IdleCall ==
    [op |-> "idle", pc |-> "idle",
     frequency_hz |-> 0, rtp_destination |-> NoStr, preset |-> NoStr,
     sample_rate |-> NoInt,
     existing |-> << >>, created |-> << >>, fallback_ssrc |-> << >>,
     control |-> "closed", connects |-> 0, cmds |-> << >>,
     passes |-> 0, firstCount |-> -1, lookupOk |-> FALSE, elapsed |-> 0,
     disturbed |-> FALSE, result |-> NoResult,
     command |-> NoStr, ssrc |-> << >>, ssrc_given |-> FALSE,
     frequency_given |-> FALSE,
     snapshot |-> << >>, stdout |-> << >>, exit_code |-> -1,
     tried |-> << >>, produced_by |-> "none", method |-> NoStr,
     channel_count |-> 0, addresses |-> {}]

\* Channels the daemon advertises before any caller acts, in a reconciliation run.
SysCatalog ==
    { Channel(1001, F0, "iq", 24000, DEFAULT_RTP_DESTINATION),
      Channel(1002, F0 - 1, "am", 12000, DEFAULT_RTP_DESTINATION) }

\* The daemon assigns SSRCs of its own choosing: here, fresh increasing ones.
FirstAssignedSsrc ==
    LET used == {c.ssrc : c \in Catalog \cup SysCatalog}
    IN  1 + CHOOSE m \in used : \A u \in used : u <= m

SysIdle ==
    /\ pending = << >>
    /\ nextSsrc = FirstAssignedSsrc
    /\ call = [p \in Procs |-> IdleCall]
    /\ prev = [p \in Procs |-> << >>]
    /\ touched = [p \in Procs |-> FALSE]
    /\ ncalls = 0

NoLook ==
    [called |-> FALSE, obs |-> [ok |-> FALSE, chans |-> << >>],
     frequency_hz |-> 0, rtp_destination |-> NoStr, tolerance_hz |-> 0,
     preset |-> NoStr, sample_rate |-> NoInt,
     outcome |-> "none", result |-> << >>]

InitLookup ==
    /\ daemon \in {S \in SUBSET Catalog : Cardinality(S) <= MaxSnap}
    /\ look = NoLook
    /\ libHasRequest = TRUE
    /\ SysIdle

\* One direct call of find_channel_by_frequency against the advertised set.
Find ==
    /\ ~look.called
    /\ \E obs \in Observations(daemon), f \in LookFreqs, d \in LookDests,
          t \in LookTolerances, p \in LookPresets, r \in LookRates :
          LET res == CallFind(obs, f, d, t, p, r)
          IN  look' = [called |-> TRUE, obs |-> obs, frequency_hz |-> f,
                       rtp_destination |-> d, tolerance_hz |-> t,
                       preset |-> p, sample_rate |-> r,
                       outcome |-> res.outcome, result |-> res.result]
    /\ UNCHANGED <<daemon, sysvars>>

NextLookup == Find

SpecLookup == InitLookup /\ [][NextLookup]_vars

\* ------------------------------------------------------- lookup properties
\* The records a lookup may choose from according to the matcher's contract:
\* observed on the requested destination, not closed, within tolerance, and
\* passing the preset and sample-rate filters that were given.
Snapshot(l) == DiscoverChannels(l.obs, l.rtp_destination).channels

Infos(l) == {Snapshot(l)[i] : i \in DOMAIN Snapshot(l)}

Distance(info, l) == Abs(info.frequency_hz - l.frequency_hz)

PassesFilters(info, l) ==
    /\ l.preset # NoStr => info.preset = l.preset
    /\ l.sample_rate # NoInt => info.sample_rate = l.sample_rate

Candidates(l) ==
    {c \in Infos(l) : /\ c.frequency_hz > 0
                      /\ Distance(c, l) <= l.tolerance_hz
                      /\ PassesFilters(c, l)}

Returned(l) == l.called /\ l.result # << >>

\* C1: the lookup returns a record only if the record's frequency lies within
\* [f - t, f + t] and the record is not closed (frequency > 0), on the index
\* path and on the tolerance scan alike.
C1_MatchWithinToleranceAndOpen ==
    Returned(look) =>
        /\ Distance(look.result[1], look) <= look.tolerance_hz
        /\ look.result[1].frequency_hz > 0

\* C2: a lookup that is given a preset and/or sample-rate filter yields none or
\* a record, and a record it yields has the preset and sample rate of the filter.
C2_FiltersAreHonoured ==
    (look.called /\ (look.preset # NoStr \/ look.sample_rate # NoInt)) =>
        /\ look.outcome = "returned"
        /\ Returned(look) => PassesFilters(look.result[1], look)

\* C3: the lookup returns a record exactly when the snapshot holds a non-closed
\* record within tolerance that passes the filters, and returns none (never an
\* error) otherwise.
C3_FindsExactlyWhenCandidateExists ==
    look.called =>
        /\ look.outcome = "returned"
        /\ Returned(look) <=> (look.obs.ok /\ Candidates(look) # {})

\* C4: among several candidates within tolerance the lookup returns one at
\* minimal distance from the desired frequency, and the record returned does
\* not depend on the order in which discovery observed the channels.
C4_NearestAndOrderIndependent ==
    (look.called /\ look.obs.ok /\ look.outcome = "returned") =>
        /\ Returned(look) =>
              \A c \in Candidates(look) :
                  Distance(look.result[1], look) <= Distance(c, look)
        /\ \A o \in Observations(daemon) :
              o.ok => CallFind(o, look.frequency_hz, look.rtp_destination,
                               look.tolerance_hz, look.preset,
                               look.sample_rate).result = look.result

\* ------------------------------------------------- get_or_create_channel
\* Operations all callers together may start in one run.
MaxCalls == 2

\* time.sleep(0.3) and listen_duration=1.0, in tenths of a second.
SLEEP_TENTHS == 3
LISTEN_TENTHS == 10

\* tolerance_hz: float = 1.0, the default every caller in the module relies on.
DefaultTolerance == Hz(1)

GocFreqs == {F0, F0 + 1}
GocPresets == {NoStr, "iq"}
GocRates == {NoInt}
GocDests == {NoStr}

\* `x = x or DEFAULT`
OrDefault(v, none, default) == IF v = none THEN default ELSE v

\* The dict returned for a channel found before any command.
ExistingResult(existing) ==
    [NoResult EXCEPT !.status = "returned", !.success = TRUE,
                     !.ssrc = <<existing.ssrc>>,
                     !.frequency_hz = existing.frequency_hz,
                     !.multicast_address = existing.multicast_address,
                     !.sample_rate = existing.sample_rate,
                     !.preset = existing.preset,
                     !.mode = "existing", !.existed = TRUE]

\* The dict returned for a channel found by the discovery after the command.
CreatedResult(created) ==
    [NoResult EXCEPT !.status = "returned", !.success = TRUE,
                     !.ssrc = <<created.ssrc>>,
                     !.frequency_hz = created.frequency_hz,
                     !.multicast_address = created.multicast_address,
                     !.sample_rate = created.sample_rate,
                     !.preset = created.preset,
                     !.mode = "created", !.existed = FALSE]

\* Not found after the legacy create: the SSRC is the one the client chose.
FallbackResult(c) ==
    [NoResult EXCEPT !.status = "returned", !.success = TRUE,
                     !.ssrc = c.fallback_ssrc,
                     !.frequency_hz = c.frequency_hz,
                     !.multicast_address = c.rtp_destination,
                     !.sample_rate = c.sample_rate,
                     !.preset = c.preset,
                     !.mode = "created_fallback", !.existed = FALSE]

\* Mutant of RequestedResult: an unconfirmed request reported as a failure.
RequestedAsFailure(c) ==
    [NoResult EXCEPT !.status = "returned", !.success = FALSE,
                     !.frequency_hz = c.frequency_hz,
                     !.error = "Channel not confirmed"]

\* Not found after request_channel: the SSRC is unknown (None).
RequestedResult(c) ==
    [NoResult EXCEPT !.status = "returned", !.success = TRUE,
                     !.ssrc = << >>,
                     !.frequency_hz = c.frequency_hz,
                     !.multicast_address = c.rtp_destination,
                     !.sample_rate = c.sample_rate,
                     !.preset = c.preset,
                     !.mode = "requested", !.existed = FALSE,
                     !.note = "Channel requested; SSRC pending discovery"]

\* An exception leaving get_or_create_channel (nothing in it catches one).
RaisedResult(err) == [NoResult EXCEPT !.status = "raised", !.error = err]

\* Entry: the argument defaults are applied, nothing else has happened.
EnterGetOrCreate(frequency_hz, rtp_destination, preset, sample_rate) ==
    [IdleCall EXCEPT !.op = "get_or_create", !.pc = "lookup",
                     !.frequency_hz = frequency_hz,
                     !.rtp_destination =
                         OrDefault(rtp_destination, NoStr, DEFAULT_RTP_DESTINATION),
                     !.preset = OrDefault(preset, NoStr, DEFAULT_PRESET),
                     !.sample_rate = OrDefault(sample_rate, NoInt, DEFAULT_SAMPLE_RATE)]

\* Mutant of AfterLookup: a match does not end the call.
AfterLookupNoShortcut(c, obs) ==
    LET discovered == DiscoverChannels(obs, c.rtp_destination)
        existing == CallFind(obs, c.frequency_hz, c.rtp_destination,
                             DefaultTolerance, NoStr, NoInt).result
    IN  [c EXCEPT !.passes = c.passes + 1,
                  !.firstCount = discovered.channel_count,
                  !.lookupOk = obs.ok,
                  !.existing = existing,
                  !.pc = "connect"]

\* Mutant of AfterLookup: an empty snapshot ends the call with an error.
AfterLookupEmptyFatal(c, obs) ==
    LET discovered == DiscoverChannels(obs, c.rtp_destination)
        existing == CallFind(obs, c.frequency_hz, c.rtp_destination,
                             DefaultTolerance, NoStr, NoInt).result
    IN  [c EXCEPT !.passes = c.passes + 1,
                  !.firstCount = discovered.channel_count,
                  !.lookupOk = obs.ok,
                  !.existing = existing,
                  !.pc = IF existing # << >> \/ discovered.channel_count = 0
                         THEN "done" ELSE "connect",
                  !.result = IF existing # << >> THEN ExistingResult(existing[1])
                             ELSE IF discovered.channel_count = 0
                             THEN RaisedResult(discovered.note)
                             ELSE c.result]

\* Mutant of AfterLookup: the first lookup is made with zero tolerance.
AfterLookupExactOnly(c, obs) ==
    LET discovered == DiscoverChannels(obs, c.rtp_destination)
        existing == CallFind(obs, c.frequency_hz, c.rtp_destination,
                             0, NoStr, NoInt).result
    IN  [c EXCEPT !.passes = c.passes + 1,
                  !.firstCount = discovered.channel_count,
                  !.lookupOk = obs.ok,
                  !.existing = existing,
                  !.pc = IF existing # << >> THEN "done" ELSE "connect",
                  !.result = IF existing # << >> THEN ExistingResult(existing[1])
                             ELSE c.result]

\* Strategy 1: one discovery pass and the lookup; a match ends the call.
AfterLookup(c, obs) ==
    LET discovered == DiscoverChannels(obs, c.rtp_destination)
        existing == CallFind(obs, c.frequency_hz, c.rtp_destination,
                             DefaultTolerance, NoStr, NoInt).result
    IN  [c EXCEPT !.passes = c.passes + 1,
                  !.firstCount = discovered.channel_count,
                  !.lookupOk = obs.ok,
                  !.existing = existing,
                  !.pc = IF existing # << >> THEN "done" ELSE "connect",
                  !.result = IF existing # << >> THEN ExistingResult(existing[1])
                             ELSE c.result]

\* Mutant of AfterConfirm: an unconfirmed command is issued again.
AfterConfirmRetry(c, obs) ==
    LET created == CallFind(obs, c.frequency_hz, c.rtp_destination,
                            DefaultTolerance, NoStr, NoInt).result
    IN  [c EXCEPT !.passes = c.passes + 1,
                  !.elapsed = c.elapsed + SLEEP_TENTHS + LISTEN_TENTHS,
                  !.created = created,
                  !.control = IF created # << >> THEN "closed" ELSE c.control,
                  !.pc = IF created # << >> THEN "done" ELSE "request",
                  !.result = IF created # << >> THEN CreatedResult(created[1])
                             ELSE c.result]

\* Mutant of AfterConfirm: an unconfirmed legacy create is reported as created.
AfterConfirmFallbackAsCreated(c, obs) ==
    LET created == CallFind(obs, c.frequency_hz, c.rtp_destination,
                            DefaultTolerance, NoStr, NoInt).result
    IN  [c EXCEPT !.passes = c.passes + 1,
                  !.elapsed = SLEEP_TENTHS + LISTEN_TENTHS,
                  !.created = created,
                  !.control = "closed",
                  !.pc = "done",
                  !.result = IF created # << >> THEN CreatedResult(created[1])
                             ELSE IF c.fallback_ssrc # << >>
                             THEN [FallbackResult(c) EXCEPT !.mode = "created"]
                             ELSE RequestedResult(c)]

\* After the command: sleep, one discovery pass and lookup, then the result;
\* leaving the `with` block closes the control connection.
AfterConfirm(c, obs) ==
    LET created == CallFind(obs, c.frequency_hz, c.rtp_destination,
                            DefaultTolerance, NoStr, NoInt).result
    IN  [c EXCEPT !.passes = c.passes + 1,
                  !.elapsed = SLEEP_TENTHS + LISTEN_TENTHS,
                  !.created = created,
                  !.control = "closed",
                  !.pc = "done",
                  !.result = IF created # << >> THEN CreatedResult(created[1])
                             ELSE IF c.fallback_ssrc # << >> THEN FallbackResult(c)
                             ELSE RequestedResult(c)]

\* A command the daemon accepted, as it sits in the daemon until acted on.
Command(by, kind, ssrc, c) ==
    [by |-> by, kind |-> kind, ssrc |-> ssrc, frequency |-> c.frequency_hz,
     preset |-> c.preset, sample_rate |-> c.sample_rate,
     destination |-> IF kind = "request_channel" THEN c.rtp_destination ELSE NoStr]

\* Caller p's call moves to c.  A call that ends notes whether the channel set
\* was disturbed since the caller's previous call ended.
SetCall(p, c) ==
    /\ call' = [call EXCEPT ![p] = IF c.pc = "done"
                                   THEN [c EXCEPT !.disturbed = touched[p]] ELSE c]
    /\ touched' = IF c.pc = "done" THEN [touched EXCEPT ![p] = FALSE] ELSE touched

\* What a caller remembers of a finished call.
Summary(c) ==
    [op |-> c.op, frequency_hz |-> c.frequency_hz,
     rtp_destination |-> c.rtp_destination, preset |-> c.preset,
     sample_rate |-> c.sample_rate, status |-> c.result.status,
     mode |-> c.result.mode]

\* A caller may start an operation when it has none in progress.
MayStart(p) ==
    /\ call[p].pc \in {"idle", "done"}
    /\ ncalls < MaxCalls

Remember(p) ==
    prev' = [prev EXCEPT ![p] = IF call[p].pc = "done" THEN <<Summary(call[p])>>
                                 ELSE prev[p]]

GocStart(p) ==
    /\ MayStart(p)
    /\ \E f \in GocFreqs, d \in GocDests, pr \in GocPresets, r \in GocRates :
          SetCall(p, EnterGetOrCreate(f, d, pr, r))
    /\ Remember(p)
    /\ ncalls' = ncalls + 1
    /\ UNCHANGED <<daemon, look, pending, nextSsrc, libHasRequest>>

\* Mutant of GocLookup: a caller waits while another caller's call is between
\* its lookup and its result (calls serialized by a lock).
GocLookupSerialized(p) ==
    /\ call[p].op = "get_or_create" /\ call[p].pc = "lookup"
    /\ \A q \in Procs \ {p} : call[q].pc \notin {"connect", "request", "confirm"}
    /\ \E obs \in Observations(daemon) : SetCall(p, AfterLookup(call[p], obs))
    /\ UNCHANGED <<daemon, look, pending, nextSsrc, libHasRequest, prev, ncalls>>

GocLookup(p) ==
    /\ call[p].op = "get_or_create" /\ call[p].pc = "lookup"
    /\ \E obs \in Observations(daemon) : SetCall(p, AfterLookup(call[p], obs))
    /\ UNCHANGED <<daemon, look, pending, nextSsrc, libHasRequest, prev, ncalls>>

\* `with RadiodControl(radiod_host) as control`: the connection opens ...
GocConnect(p) ==
    /\ call[p].op = "get_or_create" /\ call[p].pc = "connect"
    /\ SetCall(p, [call[p] EXCEPT !.connects = @ + 1, !.control = "open",
                                  !.pc = "request"])
    /\ UNCHANGED <<daemon, look, pending, nextSsrc, libHasRequest, prev, ncalls>>

\* ... or the constructor raises.
GocConnectFails(p) ==
    /\ call[p].op = "get_or_create" /\ call[p].pc = "connect"
    /\ SetCall(p, [call[p] EXCEPT !.connects = @ + 1, !.pc = "done",
                                  !.result = RaisedResult("ConnectionError")])
    /\ UNCHANGED <<daemon, look, pending, nextSsrc, libHasRequest, prev, ncalls>>

\* control.request_channel(...) is accepted by the daemon.
GocRequest(p) ==
    /\ call[p].op = "get_or_create" /\ call[p].pc = "request"
    /\ libHasRequest
    /\ SetCall(p, [call[p] EXCEPT !.cmds = Append(@, "request_channel"),
                                  !.pc = "confirm"])
    /\ pending' = Append(pending, Command(p, "request_channel", << >>, call[p]))
    /\ UNCHANGED <<daemon, look, nextSsrc, libHasRequest, prev, ncalls>>

\* control.request_channel(...) raises something other than AttributeError:
\* the exception leaves the `with` block (closing the connection) and the call.
GocRequestFails(p) ==
    /\ call[p].op = "get_or_create" /\ call[p].pc = "request"
    /\ libHasRequest
    /\ SetCall(p, [call[p] EXCEPT !.control = "closed", !.pc = "done",
                                  !.result = RaisedResult("CommandError")])
    /\ UNCHANGED <<daemon, look, pending, nextSsrc, libHasRequest, prev, ncalls>>

\* AttributeError (no request_channel in this ka9q): legacy create_channel
\* with int(frequency_hz) as the SSRC, accepted by the daemon.
GocFallback(p) ==
    /\ call[p].op = "get_or_create" /\ call[p].pc = "request"
    /\ ~libHasRequest
    /\ LET ssrc == <<ToInt(call[p].frequency_hz)>>
       IN  /\ SetCall(p, [call[p] EXCEPT !.fallback_ssrc = ssrc,
                                         !.cmds = Append(@, "create_channel"),
                                         !.pc = "confirm"])
           /\ pending' = Append(pending, Command(p, "create_channel", ssrc, call[p]))
    /\ UNCHANGED <<daemon, look, nextSsrc, libHasRequest, prev, ncalls>>

\* The legacy create_channel raises.
GocFallbackFails(p) ==
    /\ call[p].op = "get_or_create" /\ call[p].pc = "request"
    /\ ~libHasRequest
    /\ SetCall(p, [call[p] EXCEPT !.fallback_ssrc = <<ToInt(call[p].frequency_hz)>>,
                                  !.control = "closed", !.pc = "done",
                                  !.result = RaisedResult("CommandError")])
    /\ UNCHANGED <<daemon, look, pending, nextSsrc, libHasRequest, prev, ncalls>>

GocConfirm(p) ==
    /\ call[p].op = "get_or_create" /\ call[p].pc = "confirm"
    /\ \E obs \in Observations(daemon) : SetCall(p, AfterConfirm(call[p], obs))
    /\ UNCHANGED <<daemon, look, pending, nextSsrc, libHasRequest, prev, ncalls>>

\* ------------------------------------------------------------- the daemon
DaemonDests == {DEFAULT_RTP_DESTINATION, "239.1.2.3"}

\* The daemon acts on an accepted command: the channel appears.  A request
\* gets an SSRC of the daemon's choosing and the destination asked for; the
\* legacy create names its SSRC and leaves the destination to the daemon.
\* The channel set changed: every caller that has called before takes note.
Touch == touched' = [q \in Procs |-> call[q].op # "idle"]

DaemonCreate ==
    \E i \in {j \in DOMAIN pending : pending[j].kind # "remove_channel"} :
      \E dd \in IF pending[i].kind = "request_channel"
                THEN {pending[i].destination} ELSE DaemonDests :
        LET cmd == pending[i]
            ssrc == IF cmd.kind = "request_channel" THEN nextSsrc ELSE cmd.ssrc[1]
            ch == Channel(ssrc, cmd.frequency, cmd.preset, cmd.sample_rate, dd)
        IN  /\ daemon' = {x \in daemon : x.ssrc # ssrc} \cup {ch}
            /\ nextSsrc' = IF cmd.kind = "request_channel" THEN nextSsrc + 1 ELSE nextSsrc
            /\ pending' = [j \in 1..(Len(pending) - 1) |->
                              IF j < i THEN pending[j] ELSE pending[j + 1]]
            /\ Touch
            /\ UNCHANGED <<look, libHasRequest, call, prev, ncalls>>

\* A channel ends for reasons of the daemon's own (its lifetime is not the
\* client's): it is no longer advertised.
ExternalClose ==
    /\ \E ch \in daemon : daemon' = daemon \ {ch}
    /\ Touch
    /\ UNCHANGED <<look, pending, nextSsrc, libHasRequest, call, prev, ncalls>>

\* Another application's channel appears.
ExternalOpen ==
    /\ \E ch \in SysCatalog :
          /\ \A x \in daemon : x.ssrc # ch.ssrc
          /\ daemon' = daemon \cup {ch}
    /\ Touch
    /\ UNCHANGED <<look, pending, nextSsrc, libHasRequest, call, prev, ncalls>>

Init ==
    /\ daemon \in SUBSET SysCatalog
    /\ look = NoLook
    /\ libHasRequest \in BOOLEAN
    /\ SysIdle

\* The steps of caller p.
Caller(p) ==
    \/ GocStart(p)
    \/ GocLookup(p)
    \/ GocConnect(p)
    \/ GocConnectFails(p)
    \/ GocRequest(p)
    \/ GocRequestFails(p)
    \/ GocFallback(p)
    \/ GocFallbackFails(p)
    \/ GocConfirm(p)

Environment ==
    \/ DaemonCreate
    \/ ExternalClose
    \/ ExternalOpen

\* One application calling the client, operation after operation, against a
\* daemon that other applications use as well.
Next ==
    \/ Caller("a")
    \/ Environment

Spec == Init /\ [][Next]_vars

\* ------------------------------------------------ get-or-create properties
\* The overall confirmation timeout the design calls for (about 10 s), in tenths.
POLL_TIMEOUT_TENTHS == 100

Goc(p) == call[p].op = "get_or_create"

Ended(p) == Goc(p) /\ call[p].pc = "done"

ReturnedMode(p, modes) ==
    Ended(p) /\ call[p].result.status = "returned" /\ call[p].result.mode \in modes

\* C5: in every get-or-create call the discovery-and-match step precedes any
\* control-channel activity, and a call whose first lookup finds a match
\* returns that channel as mode=existing, having opened no control connection
\* and issued no command.
C5_ExistingBeforeAnyControl ==
    \A p \in Procs :
        Goc(p) =>
            /\ (call[p].connects > 0 \/ call[p].cmds # << >>) =>
                  (call[p].passes >= 1 /\ call[p].existing = << >>)
            /\ call[p].existing # << >> =>
                  /\ ReturnedMode(p, {"existing"})
                  /\ call[p].result.ssrc = <<call[p].existing[1].ssrc>>
                  /\ call[p].connects = 0
                  /\ call[p].cmds = << >>
                  /\ call[p].control = "closed"

C5_Witness ==
    \E p \in Procs : ReturnedMode(p, {"existing"}) /\ call[p].passes = 1

\* C6: a channel returned with mode existing or created has the preset and
\* the sample rate of the requested spec.
C6_ResultHasRequestedPresetAndRate ==
    \A p \in Procs :
        ReturnedMode(p, {"existing", "created"}) =>
            /\ call[p].result.preset = call[p].preset
            /\ call[p].result.sample_rate = call[p].sample_rate

SameSpec(s, c) ==
    /\ s.op = c.op
    /\ s.frequency_hz = c.frequency_hz
    /\ s.rtp_destination = c.rtp_destination
    /\ s.preset = c.preset
    /\ s.sample_rate = c.sample_rate

\* Caller p has made two get-or-create calls in sequence with one spec, both
\* returned, and the daemon's channel set did not change from the end of the
\* first to the end of the second.
TwiceInSequence(p) ==
    /\ Ended(p)
    /\ call[p].result.status = "returned"
    /\ prev[p] # << >>
    /\ prev[p][1].status = "returned"
    /\ SameSpec(prev[p][1], call[p])
    /\ ~call[p].disturbed

C8_EmptyDiscoveryGoesOnToCreate ==
    \A p \in Procs :
        (Goc(p) /\ call[p].passes >= 1 /\ call[p].firstCount = 0) =>
            /\ call[p].pc \in {"connect", "request", "confirm", "done"}
            /\ call[p].pc = "done" =>
                  /\ call[p].connects = 1
                  /\ call[p].result.status = "raised" =>
                        call[p].result.error \in {"ConnectionError", "CommandError"}
                  /\ call[p].result.status = "returned" => call[p].cmds # << >>

C8_Witness ==
    \E p \in Procs :
        /\ Goc(p) /\ ~call[p].lookupOk /\ call[p].firstCount = 0
        /\ call[p].cmds # << >>
        /\ call[p].pc = "confirm"

\* C9: the unconfirmed outcome is reported only once the overall timeout has
\* elapsed since the command (until then discovery is re-run).
C9_UnconfirmedOnlyAfterTimeout ==
    \A p \in Procs :
        ReturnedMode(p, {"requested", "created_fallback"}) =>
            call[p].elapsed >= POLL_TIMEOUT_TENTHS

\* C10: when request_channel was accepted and the discovery after it does not
\* show the channel, the call returns success with mode=requested and no SSRC.
C10_AcceptedUnseenIsRequested ==
    \A p \in Procs :
        (/\ Ended(p)
         /\ call[p].cmds = <<"request_channel">>
         /\ call[p].created = << >>) =>
            /\ call[p].result.status = "returned"
            /\ call[p].result.success
            /\ call[p].result.mode = "requested"
            /\ call[p].result.ssrc = << >>

C10_Witness ==
    \E p \in Procs :
        /\ Ended(p)
        /\ call[p].cmds = <<"request_channel">>
        /\ call[p].created = << >>
        /\ call[p].passes = 2

\* The fixed frequency offset of the collision policy, in Hz.
COLLISION_OFFSET_HZ == 100

\* The collision heuristic: the desired frequency is an exact multiple of 100 Hz.
IsCollisionCandidate(frequency_hz) == frequency_hz % Hz(COLLISION_OFFSET_HZ) = 0

\* The create/request command of the call was issued and raised.
CommandFailed(p) ==
    /\ Ended(p)
    /\ call[p].result.status = "raised"
    /\ call[p].result.error = "CommandError"

\* C11: a call whose create/request command fails while the desired frequency
\* is an exact multiple of 100 Hz does not end on that first failure: it runs
\* the flow again (a further discovery pass and a further control connection)
\* for the frequency raised by 100 Hz.
C11_CommandFailureRetriesWithOffset ==
    \A p \in Procs :
        (CommandFailed(p) /\ IsCollisionCandidate(call[p].frequency_hz)) =>
            /\ call[p].connects >= 2
            /\ call[p].passes >= 2

\* Position of a call in the flow of get_or_create_channel.
Rank(pc) ==
    CASE pc = "idle" -> 0
      [] pc = "lookup" -> 1
      [] pc = "connect" -> 2
      [] pc = "request" -> 3
      [] pc = "confirm" -> 4
      [] pc = "done" -> 5

InFlight(p) == Goc(p) /\ call[p].pc \notin {"idle", "done"}

\* What one call may spend: commands, control connections, discovery passes
\* and waiting time.
CallIsBounded(p) ==
    /\ Len(call[p].cmds) <= 1
    /\ call[p].connects <= 1
    /\ call[p].passes <= 2
    /\ call[p].elapsed <= SLEEP_TENTHS + LISTEN_TENTHS
    /\ Ended(p) => call[p].result.status \in {"returned", "raised"}

\* C12: every get-or-create call terminates.  A call issues at most one
\* create/request command (the code retries nothing), opens at most one control
\* connection, runs at most two discovery passes and waits at most the sleep
\* plus one listen window; a call in flight can always take its next step, and
\* every step of a call in flight moves it strictly forward in the flow, so
\* that it ends, with a result or an error, after at most four steps.
C12_CallTerminatesWithinBounds ==
    /\ [](\A p \in Procs : Goc(p) => CallIsBounded(p))
    /\ [](\A p \in Procs : InFlight(p) => ENABLED Caller(p))
    /\ [][\A p \in Procs :
            (InFlight(p) /\ call'[p] # call[p]) =>
                Rank(call'[p].pc) > Rank(call[p].pc)]_vars

C12_Witness ==
    \E p \in Procs :
        /\ ReturnedMode(p, {"requested"})
        /\ Len(call[p].cmds) = 1
        /\ call[p].passes = 2
        /\ call[p].elapsed = SLEEP_TENTHS + LISTEN_TENTHS

\* ------------------------------------------ request, create, remove, discover
\* The operations that issue one command over a control connection of their own.
CtlOps == {"request", "create", "remove"}

CommandKind(c) ==
    CASE c.op = "request" -> "request_channel"
      [] c.op = "create" -> "create_channel"
      [] c.op = "remove" -> "remove_channel"

\* request_channel: entry and defaults; the body starts with the connection.
EnterRequest(frequency_hz, rtp_destination, preset, sample_rate) ==
    [IdleCall EXCEPT !.op = "request", !.pc = "connect",
                     !.frequency_hz = frequency_hz, !.frequency_given = TRUE,
                     !.rtp_destination =
                         OrDefault(rtp_destination, NoStr, DEFAULT_RTP_DESTINATION),
                     !.preset = OrDefault(preset, NoStr, DEFAULT_PRESET),
                     !.sample_rate = OrDefault(sample_rate, NoInt, DEFAULT_SAMPLE_RATE)]

\* create_channel (legacy): the caller names the SSRC.
EnterCreate(ssrc, frequency_hz, preset, sample_rate) ==
    [IdleCall EXCEPT !.op = "create", !.pc = "connect",
                     !.ssrc = <<ssrc>>, !.ssrc_given = TRUE,
                     !.frequency_hz = frequency_hz, !.frequency_given = TRUE,
                     !.preset = OrDefault(preset, NoStr, DEFAULT_PRESET),
                     !.sample_rate = OrDefault(sample_rate, NoInt, DEFAULT_SAMPLE_RATE)]

RemoveNotFound(c) ==
    [NoResult EXCEPT !.status = "returned", !.success = FALSE,
                     !.error = "No channel found at frequency"]

RemoveNoTarget ==
    [NoResult EXCEPT !.status = "returned", !.success = FALSE,
                     !.error = "Must provide either ssrc or frequency_hz"]

\* Mutant of EnterRemove: a frequency that is given is looked up even when an
\* SSRC is given as well.
EnterRemoveAlwaysLooksUp(ssrc, frequency, rtp_destination) ==
    LET c == [IdleCall EXCEPT !.op = "remove",
                              !.ssrc = ssrc, !.ssrc_given = (ssrc # << >>),
                              !.frequency_given = (frequency # << >>),
                              !.frequency_hz = IF frequency # << >> THEN frequency[1] ELSE 0,
                              !.rtp_destination =
                                  OrDefault(rtp_destination, NoStr, DEFAULT_RTP_DESTINATION)]
    IN  IF frequency # << >> THEN [c EXCEPT !.pc = "lookup"]
        ELSE IF ssrc = << >> THEN [c EXCEPT !.pc = "done", !.result = RemoveNoTarget]
        ELSE [c EXCEPT !.pc = "connect"]

\* Mutant of EnterRemove: the check for a missing SSRC is left out.
EnterRemoveNoCheck(ssrc, frequency, rtp_destination) ==
    LET c == [IdleCall EXCEPT !.op = "remove",
                              !.ssrc = ssrc, !.ssrc_given = (ssrc # << >>),
                              !.frequency_given = (frequency # << >>),
                              !.frequency_hz = IF frequency # << >> THEN frequency[1] ELSE 0,
                              !.rtp_destination =
                                  OrDefault(rtp_destination, NoStr, DEFAULT_RTP_DESTINATION)]
    IN  IF ssrc = << >> /\ frequency # << >> THEN [c EXCEPT !.pc = "lookup"]
        ELSE [c EXCEPT !.pc = "connect"]

\* remove_channel: entry.  ssrc and frequency are optional (<< >> is None); the
\* lookup is needed only without an SSRC, and without either the call is over.
EnterRemove(ssrc, frequency, rtp_destination) ==
    LET c == [IdleCall EXCEPT !.op = "remove",
                              !.ssrc = ssrc, !.ssrc_given = (ssrc # << >>),
                              !.frequency_given = (frequency # << >>),
                              !.frequency_hz = IF frequency # << >> THEN frequency[1] ELSE 0,
                              !.rtp_destination =
                                  OrDefault(rtp_destination, NoStr, DEFAULT_RTP_DESTINATION)]
    IN  IF ssrc = << >> /\ frequency # << >> THEN [c EXCEPT !.pc = "lookup"]
        ELSE IF ssrc = << >> THEN [c EXCEPT !.pc = "done", !.result = RemoveNoTarget]
        ELSE [c EXCEPT !.pc = "connect"]

\* Mutant of AfterRemoveLookup: without a match the frequency stands in for
\* the SSRC.
AfterRemoveLookupGuesses(c, obs) ==
    LET existing == CallFind(obs, c.frequency_hz, c.rtp_destination,
                             DefaultTolerance, NoStr, NoInt).result
    IN  [c EXCEPT !.passes = c.passes + 1,
                  !.lookupOk = obs.ok,
                  !.existing = existing,
                  !.ssrc = IF existing # << >> THEN <<existing[1].ssrc>>
                           ELSE <<ToInt(c.frequency_hz)>>,
                  !.pc = "connect"]

\* remove_channel: the SSRC is looked up by frequency on the destination.
AfterRemoveLookup(c, obs) ==
    LET existing == CallFind(obs, c.frequency_hz, c.rtp_destination,
                             DefaultTolerance, NoStr, NoInt).result
    IN  [c EXCEPT !.passes = c.passes + 1,
                  !.lookupOk = obs.ok,
                  !.existing = existing,
                  !.ssrc = IF existing # << >> THEN <<existing[1].ssrc>> ELSE c.ssrc,
                  !.pc = IF existing # << >> THEN "connect" ELSE "done",
                  !.result = IF existing # << >> THEN c.result ELSE RemoveNotFound(c)]

\* Mutant of CommandAccepted: the result is returned without leaving the
\* `with` block (the connection is not released).
CommandAcceptedLeavesOpen(c) ==
    [c EXCEPT !.cmds = Append(c.cmds, CommandKind(c)),
              !.pc = "done",
              !.result = [NoResult EXCEPT !.status = "returned", !.success = TRUE,
                                          !.ssrc = c.ssrc]]

\* The dict request_channel, create_channel and remove_channel return once
\* the control connection has accepted the command.
CommandAccepted(c) ==
    [c EXCEPT !.cmds = Append(c.cmds, CommandKind(c)),
              !.control = "closed", !.pc = "done",
              !.result =
                 IF c.op = "request"
                 THEN [NoResult EXCEPT !.status = "returned", !.success = TRUE,
                                       !.frequency_hz = c.frequency_hz,
                                       !.multicast_address = c.rtp_destination,
                                       !.preset = c.preset,
                                       !.sample_rate = c.sample_rate,
                                       !.note = "Channel requested; SSRC assigned by radiod"]
                 ELSE [NoResult EXCEPT !.status = "returned", !.success = TRUE,
                                       !.ssrc = c.ssrc]]

RemoveLookup(p) ==
    /\ call[p].op = "remove" /\ call[p].pc = "lookup"
    /\ \E obs \in Observations(daemon) : SetCall(p, AfterRemoveLookup(call[p], obs))
    /\ UNCHANGED <<daemon, look, pending, nextSsrc, libHasRequest, prev, ncalls>>

\* `with RadiodControl(radiod_host) as control` of the three operations.
CtlConnect(p) ==
    /\ call[p].op \in CtlOps /\ call[p].pc = "connect"
    /\ SetCall(p, [call[p] EXCEPT !.connects = @ + 1, !.control = "open",
                                  !.pc = "command"])
    /\ UNCHANGED <<daemon, look, pending, nextSsrc, libHasRequest, prev, ncalls>>

CtlConnectFails(p) ==
    /\ call[p].op \in CtlOps /\ call[p].pc = "connect"
    /\ SetCall(p, [call[p] EXCEPT !.connects = @ + 1, !.pc = "done",
                                  !.result = RaisedResult("ConnectionError")])
    /\ UNCHANGED <<daemon, look, pending, nextSsrc, libHasRequest, prev, ncalls>>

\* The command is accepted; the operation returns at once.
CtlCommand(p) ==
    /\ call[p].op \in CtlOps /\ call[p].pc = "command"
    /\ call[p].op = "request" => libHasRequest
    /\ SetCall(p, CommandAccepted(call[p]))
    /\ pending' = Append(pending, Command(p, CommandKind(call[p]), call[p].ssrc, call[p]))
    /\ UNCHANGED <<daemon, look, nextSsrc, libHasRequest, prev, ncalls>>

\* The command raises (request_channel on a ka9q without it: AttributeError);
\* none of the three operations catches anything.
CtlCommandFails(p) ==
    /\ call[p].op \in CtlOps /\ call[p].pc = "command"
    /\ SetCall(p, [call[p] EXCEPT
                     !.control = "closed", !.pc = "done",
                     !.result = RaisedResult(IF call[p].op = "request" /\ ~libHasRequest
                                             THEN "AttributeError" ELSE "CommandError")])
    /\ UNCHANGED <<daemon, look, pending, nextSsrc, libHasRequest, prev, ncalls>>

\* discover_channels as an operation: one listen, then the snapshot.
DiscoverListen(p) ==
    /\ call[p].op = "discover" /\ call[p].pc = "listen"
    /\ \E obs \in Observations(daemon) :
          SetCall(p, [call[p] EXCEPT
                        !.passes = @ + 1, !.lookupOk = obs.ok,
                        !.snapshot = <<DiscoverChannels(obs, call[p].rtp_destination)>>,
                        !.pc = "done",
                        !.result = [NoResult EXCEPT !.status = "returned"]])
    /\ UNCHANGED <<daemon, look, pending, nextSsrc, libHasRequest, prev, ncalls>>

\* The daemon acts on an accepted remove: the channel is no longer advertised.
DaemonRemove ==
    \E i \in {j \in DOMAIN pending : pending[j].kind = "remove_channel"} :
        /\ daemon' = {x \in daemon : x.ssrc # pending[i].ssrc[1]}
        /\ pending' = [j \in 1..(Len(pending) - 1) |->
                          IF j < i THEN pending[j] ELSE pending[j + 1]]
        /\ Touch
        /\ UNCHANGED <<look, nextSsrc, libHasRequest, call, prev, ncalls>>

\* ------------------------------------------------------------------- main
\* Command lines one run of the client may be started with.
MaxRuns == 1

CliDests == {NoStr, "239.1.2.3"}
CliFreqs == {F0, F0 + 1}
CliPresets == {DEFAULT_PRESET}
CliRates == {DEFAULT_SAMPLE_RATE}
CliSsrcs == {1001, 1003, 7}
CliRemoveSsrcs == {<< >>} \cup {<<n>> : n \in CliSsrcs}
CliRemoveFreqs == {<< >>} \cup {<<f>> : f \in CliFreqs}

\* Channels radiod advertises when a run starts: two on the default
\* destination, one of another application on a destination of its own.
CliCatalog ==
    SysCatalog \cup {Channel(1003, F0, "am", 12000, "239.1.2.3")}

\* rtp_dest = args.rtp_destination or DEFAULT_RTP_DESTINATION
RtpDest(d) == OrDefault(d, NoStr, DEFAULT_RTP_DESTINATION)

CliMayStart(p) ==
    /\ call[p].pc \in {"idle", "exited"}
    /\ ncalls < MaxRuns

StartRun(p, c, command) ==
    /\ CliMayStart(p)
    /\ SetCall(p, [c EXCEPT !.command = command])
    /\ ncalls' = ncalls + 1
    /\ UNCHANGED <<daemon, look, pending, nextSsrc, libHasRequest, prev>>

MainDiscover(p) ==
    \E d \in CliDests :
        StartRun(p, [IdleCall EXCEPT !.op = "discover", !.pc = "listen",
                                     !.rtp_destination = RtpDest(d)], "discover")

MainRequest(p) ==
    \E f \in CliFreqs, d \in CliDests, pr \in CliPresets, r \in CliRates :
        StartRun(p, EnterRequest(f, RtpDest(d), pr, r), "request")

MainGetOrCreate(p) ==
    \E f \in CliFreqs, d \in CliDests, pr \in CliPresets, r \in CliRates :
        StartRun(p, EnterGetOrCreate(f, RtpDest(d), pr, r), "get-or-create")

MainRemove(p) ==
    \E s \in CliRemoveSsrcs, f \in CliRemoveFreqs, d \in CliDests :
        StartRun(p, EnterRemove(s, f, RtpDest(d)), "remove")

MainCreate(p) ==
    \E s \in CliSsrcs, f \in CliFreqs, pr \in CliPresets, r \in CliRates :
        StartRun(p, EnterCreate(s, f, pr, r), "create")

\* Mutant of Emitted: main has no except clause, the exception ends the process.
EmittedUncaught(c) ==
    IF c.result.status = "returned"
    THEN [c EXCEPT !.pc = "exited",
                   !.stdout = <<[success |-> IF c.op = "discover" THEN "absent"
                                             ELSE IF c.result.success THEN "true"
                                             ELSE "false",
                                 error |-> c.result.error]>>,
                   !.exit_code = 0]
    ELSE [c EXCEPT !.pc = "exited", !.exit_code = 1]

\* What main emits for the outcome of the operation: the dict the operation
\* returned (the snapshot of discover has no `success` key) with exit code 0,
\* or, for an exception, {'success': False, 'error': str(e)} with exit code 1.
Emitted(c) ==
    IF c.result.status = "returned"
    THEN [c EXCEPT !.pc = "exited",
                   !.stdout = <<[success |-> IF c.op = "discover" THEN "absent"
                                             ELSE IF c.result.success THEN "true"
                                             ELSE "false",
                                 error |-> c.result.error]>>,
                   !.exit_code = 0]
    ELSE [c EXCEPT !.pc = "exited",
                   !.stdout = <<[success |-> "false", error |-> c.result.error]>>,
                   !.exit_code = 1]

MainReturn(p) ==
    /\ call[p].command # NoStr /\ call[p].pc = "done"
    /\ call' = [call EXCEPT ![p] = Emitted(call[p])]
    /\ UNCHANGED <<daemon, look, pending, nextSsrc, libHasRequest, prev, touched, ncalls>>

InitCli ==
    /\ daemon \in SUBSET CliCatalog
    /\ look = NoLook
    /\ libHasRequest \in BOOLEAN
    /\ SysIdle

\* One run of the command line after another.
Cli(p) ==
    \/ MainDiscover(p)
    \/ MainRequest(p)
    \/ MainGetOrCreate(p)
    \/ MainRemove(p)
    \/ MainCreate(p)
    \/ DiscoverListen(p)
    \/ GocLookup(p)
    \/ GocConnect(p)
    \/ GocConnectFails(p)
    \/ GocRequest(p)
    \/ GocRequestFails(p)
    \/ GocFallback(p)
    \/ GocFallbackFails(p)
    \/ GocConfirm(p)
    \/ RemoveLookup(p)
    \/ CtlConnect(p)
    \/ CtlConnectFails(p)
    \/ CtlCommand(p)
    \/ CtlCommandFails(p)
    \/ MainReturn(p)

NextCli ==
    \/ Cli("a")
    \/ DaemonCreate
    \/ DaemonRemove

SpecCli == InitCli /\ [][NextCli]_vars

\* ------------------------------------------------ properties of the operations
Over(p) == call[p].pc \in {"done", "exited"}

Exited(p) == call[p].command # NoStr /\ call[p].pc = "exited"

ControlFailed(p) ==
    /\ Over(p)
    /\ call[p].result.status = "raised"
    /\ call[p].result.error \in {"ConnectionError", "CommandError"}

\* C13 as stated: when opening the control connection or the command fails,
\* get-or-create and remove return a failure result (success=false with the
\* error) to their caller; no exception leaves the operation.
C13_OperationReturnsFailureResult ==
    \A p \in Procs :
        (call[p].op \in {"get_or_create", "remove"} /\ Over(p)) =>
            call[p].result.status = "returned"

\* C13 as amended: an exception of the control connection or of the command
\* leaves get_or_create_channel and remove_channel, and main turns it into the
\* failure result {success: false, error} on standard output with exit code
\* 1; every run ends with a result on standard output and exit code 0 or 1.
C13_MainEmitsFailureResult ==
    \A p \in Procs :
        Exited(p) =>
            /\ call[p].stdout # << >>
            /\ call[p].exit_code \in {0, 1}
            /\ (call[p].command \in {"get-or-create", "remove"} /\ ControlFailed(p)) =>
                  /\ call[p].stdout = <<[success |-> "false",
                                        error |-> call[p].result.error]>>
                  /\ call[p].exit_code = 1

C13_Witness ==
    \E p \in Procs :
        /\ Exited(p)
        /\ call[p].command = "remove"
        /\ call[p].result.status = "raised"
        /\ call[p].result.error = "CommandError"

\* The run removes by frequency: no SSRC was given, a frequency was.
RemoveByFrequency(p) ==
    /\ call[p].op = "remove"
    /\ ~call[p].ssrc_given
    /\ call[p].frequency_given

\* C14: remove by frequency whose lookup finds no channel at that frequency in
\* the fresh snapshot returns a failure result ("no channel found") and opens
\* no control connection and issues no remove command.
C14_RemoveByFrequencyNotFound ==
    \A p \in Procs :
        (RemoveByFrequency(p) /\ call[p].passes >= 1 /\ call[p].existing = << >>) =>
            /\ Over(p)
            /\ call[p].result.status = "returned"
            /\ ~call[p].result.success
            /\ call[p].result.error = "No channel found at frequency"
            /\ call[p].ssrc = << >>
            /\ call[p].connects = 0
            /\ call[p].cmds = << >>

C14_Witness ==
    \E p \in Procs :
        /\ RemoveByFrequency(p) /\ call[p].pc = "done"
        /\ call[p].lookupOk
        /\ call[p].existing = << >>
        /\ \E ch \in daemon : ch.frequency = call[p].frequency_hz

\* C15: remove called with an SSRC runs no discovery pass; it issues at most
\* one command, a remove carrying the SSRC it was given, and the step on which
\* the control connection accepts the command is the step on which the call
\* returns success with that SSRC: nothing waits for the channel to disappear.
C15_RemoveByIdentifierIsImmediate ==
    /\ [](\A p \in Procs :
            (call[p].op = "remove" /\ call[p].ssrc_given) =>
                /\ call[p].passes = 0
                /\ call[p].pc # "lookup"
                /\ call[p].existing = << >>
                /\ Len(call[p].cmds) <= 1
                /\ (Over(p) /\ call[p].result.status = "returned") =>
                      /\ call[p].cmds = <<"remove_channel">>
                      /\ call[p].result.success
                      /\ call[p].result.ssrc = call[p].ssrc)
    /\ [][\A p \in Procs :
            (call[p].op = "remove" /\ call[p].ssrc_given
                /\ call[p].pc \notin {"done", "exited"}
                /\ call'[p].cmds # call[p].cmds) =>
                /\ call'[p].pc = "done"
                /\ call'[p].result.success
                /\ pending' = Append(pending, pending'[Len(pending')])
                /\ pending'[Len(pending')].kind = "remove_channel"
                /\ pending'[Len(pending')].ssrc = call[p].ssrc]_vars

\* Remove commands of caller p the daemon has accepted and not yet acted on.
PendingRemoves(p) ==
    {i \in DOMAIN pending : pending[i].by = p /\ pending[i].kind = "remove_channel"}

\* The call has returned success while the channel is still advertised.
C15_Witness ==
    \E p \in Procs :
        /\ call[p].op = "remove" /\ call[p].ssrc_given
        /\ call[p].pc = "done"
        /\ call[p].result.success
        /\ PendingRemoves(p) # {}
        /\ \E ch \in daemon : <<ch.ssrc>> = call[p].ssrc

\* C16: discover never propagates an error.  When the discovery source fails
\* (address resolution or the listen raises) the operation returns a snapshot
\* with zero channels, empty maps and a reason in `note`.
C16_DiscoverFailureIsEmptySnapshot ==
    \A p \in Procs :
        (call[p].op = "discover" /\ Over(p)) =>
            /\ call[p].result.status = "returned"
            /\ call[p].snapshot # << >>
            /\ ~call[p].lookupOk =>
                  /\ call[p].snapshot[1].channel_count = 0
                  /\ call[p].snapshot[1].channels = << >>
                  /\ call[p].snapshot[1].channels_by_freq = << >>
                  /\ call[p].snapshot[1].note # NoStr

C16_Witness ==
    \E p \in Procs :
        /\ call[p].op = "discover" /\ call[p].pc = "done"
        /\ ~call[p].lookupOk
        /\ daemon # {}

\* C19: the exit code of a run is 0 when the operation succeeded and 1 on any
\* failure: a run whose JSON result says success=false exits with 1.
C19_ExitCodeFollowsSuccess ==
    \A p \in Procs :
        Exited(p) =>
            /\ call[p].exit_code \in {0, 1}
            /\ call[p].stdout[1].success = "false" => call[p].exit_code = 1
            /\ call[p].stdout[1].success = "true" => call[p].exit_code = 0

\* The records of a snapshot: the by-identifier map and the by-frequency index.
SnapshotRecords(snap) ==
    {snap.channels[i] : i \in DOMAIN snap.channels}
        \cup {snap.channels_by_freq[k] : k \in DOMAIN snap.channels_by_freq}

OnDestination(S, d) == {ch \in S : ch.multicast_address = d}

\* C20: with a destination filter, every record of the snapshot (by-identifier
\* map and by-frequency index) is on that destination and channel_count counts
\* exactly the advertised channels on it; the record a lookup selects, in
\* get-or-create and in remove by frequency, is on the destination, and the
\* SSRC remove takes from it is that of a channel advertised on it.
C20_DestinationFilterHolds ==
    /\ [](\A p \in Procs :
            /\ call[p].snapshot # << >> =>
                  /\ \A r \in SnapshotRecords(call[p].snapshot[1]) :
                        r.multicast_address = call[p].rtp_destination
                  /\ call[p].snapshot[1].channel_count
                        = Len(call[p].snapshot[1].channels)
            /\ call[p].existing # << >> =>
                  call[p].existing[1].multicast_address = call[p].rtp_destination
            /\ call[p].created # << >> =>
                  call[p].created[1].multicast_address = call[p].rtp_destination)
    /\ [][\A p \in Procs :
            /\ (call[p].pc = "listen" /\ call'[p].pc = "done" /\ call'[p].lookupOk) =>
                  call'[p].snapshot[1].channel_count
                      = Cardinality(OnDestination(daemon, call[p].rtp_destination))
            /\ (RemoveByFrequency(p) /\ call[p].pc = "lookup"
                    /\ call'[p].pc = "connect") =>
                  \E ch \in OnDestination(daemon, call[p].rtp_destination) :
                      call'[p].ssrc = <<ch.ssrc>>]_vars

\* A lookup passed over a channel at the frequency on another destination.
C20_Witness ==
    \E p \in Procs :
        /\ RemoveByFrequency(p) /\ call[p].pc = "connect"
        /\ call[p].existing # << >>
        /\ \E ch \in daemon :
              /\ ch.multicast_address # call[p].rtp_destination
              /\ ch.frequency = call[p].frequency_hz

\* ------------------------------------------------- discover_multicast.py
\* What the multicast listen yields: it raises, it hears the advertised
\* channels, or (a client outside the multicast domain) it hears nothing.
NativeOutcomes(S) == Observations(S) \cup {[ok |-> TRUE, chans |-> << >>]}

\* What the control-socket query yields: the import or the query raises, or
\* radiod answers with its channels.
ControlOutcomes(S) == Observations(S)

\* The JSON the script prints for the channels it ends up with.
MulticastReport(c, chans, source) ==
    LET addrs == {chans[i].multicast_address : i \in DOMAIN chans} \ {NoStr}
    IN  [c EXCEPT !.pc = "exited",
                  !.produced_by = IF chans # << >> THEN source ELSE "none",
                  !.addresses = addrs,
                  !.channel_count = Len(chans),
                  !.method = IF chans # << >> THEN "multicast" ELSE "none",
                  !.result = [NoResult EXCEPT !.status = "returned", !.success = TRUE],
                  !.stdout = <<[success |-> "true", error |-> NoStr]>>,
                  !.exit_code = 0]

\* The outer except clause: the error is printed and the script returns 1.
MulticastError(c, err) ==
    [c EXCEPT !.pc = "exited",
              !.result = [NoResult EXCEPT !.status = "returned", !.error = err],
              !.stdout = <<[success |-> "false", error |-> err]>>,
              !.exit_code = 1]

McStart(p) ==
    /\ CliMayStart(p)
    /\ SetCall(p, [IdleCall EXCEPT !.op = "discover_multicast", !.pc = "multicast",
                                   !.command = "discover_multicast"])
    /\ ncalls' = ncalls + 1
    /\ UNCHANGED <<daemon, look, pending, nextSsrc, libHasRequest, prev>>

\* discover_channels_native: the first source.
McMulticast(p) ==
    /\ call[p].op = "discover_multicast" /\ call[p].pc = "multicast"
    /\ \E out \in NativeOutcomes(daemon) :
          LET c == [call[p] EXCEPT !.tried = Append(@, "multicast"),
                                   !.passes = @ + 1,
                                   !.lookupOk = out.ok,
                                   !.firstCount = Len(out.chans)]
          IN  SetCall(p, IF ~out.ok THEN MulticastError(c, "DiscoveryError")
                         ELSE IF out.chans # << >>
                         THEN MulticastReport(c, out.chans, "multicast")
                         ELSE [c EXCEPT !.pc = "control"])
    /\ UNCHANGED <<daemon, look, pending, nextSsrc, libHasRequest, prev, ncalls>>

\* discover_channels_via_control: tried when the first source heard nothing;
\* its failure is swallowed and the (empty) channels of the first source stay.
McControl(p) ==
    /\ call[p].op = "discover_multicast" /\ call[p].pc = "control"
    /\ \E out \in ControlOutcomes(daemon) :
          LET c == [call[p] EXCEPT !.tried = Append(@, "control-query"),
                                   !.passes = @ + 1]
          IN  SetCall(p, MulticastReport(c, IF out.ok THEN out.chans ELSE << >>,
                                         "control-query"))
    /\ UNCHANGED <<daemon, look, pending, nextSsrc, libHasRequest, prev, ncalls>>

InitMulticast ==
    /\ daemon \in {S \in SUBSET Catalog : Cardinality(S) <= MaxSnap}
    /\ look = NoLook
    /\ libHasRequest = TRUE
    /\ SysIdle

NextMulticast ==
    \/ McStart("a")
    \/ McMulticast("a")
    \/ McControl("a")

SpecMulticast == InitMulticast /\ [][NextMulticast]_vars

McExited(p) == call[p].op = "discover_multicast" /\ call[p].pc = "exited"

\* C17: discovery tries the multicast source first, and whenever that source
\* raised or returned no channel the control-query source is tried second; the
\* failure of the multicast source alone does not end discovery with an error.
C17_ControlQueryFollowsMulticast ==
    \A p \in Procs :
        McExited(p) =>
            /\ call[p].tried # << >>
            /\ call[p].tried[1] = "multicast"
            /\ (~call[p].lookupOk \/ call[p].firstCount = 0) =>
                  call[p].tried = <<"multicast", "control-query">>
            /\ call[p].exit_code = 1 => "control-query" \in
                  {call[p].tried[i] : i \in DOMAIN call[p].tried}

\* C18: the result is tagged with the strategy that produced its channels:
\* multicast only when the multicast source returned them, control-query when
\* the control-socket query returned them, none when there are none.
C18_MethodNamesProducingSource ==
    \A p \in Procs :
        (McExited(p) /\ call[p].exit_code = 0) =>
            call[p].method = call[p].produced_by

\* ------------------------------------------------------ concurrent callers
\* Two applications, each making one get-or-create call, at the same time.
RaceStart(p) ==
    /\ call[p].pc = "idle"
    /\ \E f \in GocFreqs, d \in GocDests, pr \in GocPresets, r \in GocRates :
          SetCall(p, EnterGetOrCreate(f, d, pr, r))
    /\ ncalls' = ncalls + 1
    /\ UNCHANGED <<daemon, look, pending, nextSsrc, libHasRequest, prev>>

Race(p) ==
    \/ RaceStart(p)
    \/ GocLookup(p)
    \/ GocConnect(p)
    \/ GocConnectFails(p)
    \/ GocRequest(p)
    \/ GocRequestFails(p)
    \/ GocFallback(p)
    \/ GocFallbackFails(p)
    \/ GocConfirm(p)

NextRace ==
    \/ Race("a")
    \/ Race("b")
    \/ DaemonCreate

SpecRace == Init /\ [][NextRace]_vars

\* C21: concurrent get-or-create calls are not serialized.  Whatever the other
\* caller is doing, a call in flight can take its next step, and a call whose
\* lookup found no match and whose command was accepted has issued a command
\* of its own; nothing limits the commands per frequency to one.
C21_CallersAreNotSerialized ==
    \A p \in Procs :
        /\ InFlight(p) => ENABLED Race(p)
        /\ (Ended(p) /\ call[p].result.status = "returned"
                /\ call[p].existing = << >>) => Len(call[p].cmds) = 1

\* Both callers found no match and both issued a command for one frequency.
C21_Witness ==
    /\ \A p \in Procs :
          /\ Goc(p) /\ call[p].passes >= 1
          /\ call[p].existing = << >>
          /\ Len(call[p].cmds) = 1
    /\ call["a"].frequency_hz = call["b"].frequency_hz
    /\ Len(pending) = 2

\* C22: the control connection is scoped per operation.  Each of request,
\* create, get-or-create and remove opens at most one control connection; it
\* is open only while the operation is between its connect and its return, and
\* it is closed once the operation has returned or raised and before the next
\* operation's connect, so that none is left open and none is shared.
C22_ControlConnectionIsScoped ==
    \A p \in Procs :
        /\ call[p].connects <= 1
        /\ call[p].control \in {"open", "closed"}
        /\ call[p].control = "open" =>
              /\ call[p].op \in CtlOps \cup {"get_or_create"}
              /\ call[p].pc \in {"request", "confirm", "command"}
              /\ call[p].connects = 1
        /\ call[p].pc \in {"request", "confirm", "command"} => call[p].control = "open"

\* An operation whose command raised has ended with its connection closed.
C22_Witness ==
    \E p \in Procs :
        /\ call[p].op \in CtlOps \cup {"get_or_create"}
        /\ call[p].pc = "done"
        /\ call[p].result.status = "raised"
        /\ call[p].result.error = "CommandError"
        /\ call[p].connects = 1
        /\ call[p].control = "closed"

\* C23: remove called with neither an SSRC nor a frequency returns the failure
\* result "Must provide either ssrc or frequency_hz" having run no discovery
\* pass, opened no control connection and issued no command.
C23_RemoveWithoutTargetFails ==
    \A p \in Procs :
        (call[p].op = "remove" /\ ~call[p].ssrc_given /\ ~call[p].frequency_given) =>
            /\ Over(p)
            /\ call[p].result = RemoveNoTarget
            /\ call[p].passes = 0
            /\ call[p].connects = 0
            /\ call[p].control = "closed"
            /\ call[p].cmds = << >>

C23_Witness ==
    \E p \in Procs :
        /\ call[p].op = "remove" /\ ~call[p].ssrc_given /\ ~call[p].frequency_given
        /\ call[p].pc = "done"
        /\ ~call[p].result.success
        /\ daemon # {}

\* C24: in every successful get-or-create result the mode agrees with the
\* commands of the call.  existing: no command and no connection.  created:
\* exactly one command, and the SSRC returned is that of the record the
\* discovery after the command found.  created_fallback: request_channel was
\* not available, the one command is the legacy create with SSRC
\* int(frequency), nothing was found afterwards, and that SSRC is returned.
\* requested: the one command is request_channel, no fallback SSRC, no SSRC
\* returned.  No call issues the legacy create after a request.
C24_ModeMatchesCommands ==
    \A p \in Procs :
        Goc(p) =>
            /\ call[p].cmds \in {<< >>, <<"request_channel">>, <<"create_channel">>}
            /\ (Ended(p) /\ call[p].result.status = "returned") =>
                  LET c == call[p]
                      r == call[p].result
                  IN  /\ r.success
                      /\ r.mode \in {"existing", "created", "created_fallback", "requested"}
                      /\ r.mode = "existing" =>
                            /\ c.cmds = << >>
                            /\ c.connects = 0
                            /\ r.ssrc = <<c.existing[1].ssrc>>
                      /\ r.mode = "created" =>
                            /\ Len(c.cmds) = 1
                            /\ c.created # << >>
                            /\ r.ssrc = <<c.created[1].ssrc>>
                      /\ r.mode = "created_fallback" =>
                            /\ ~libHasRequest
                            /\ c.cmds = <<"create_channel">>
                            /\ c.created = << >>
                            /\ c.fallback_ssrc = <<ToInt(c.frequency_hz)>>
                            /\ r.ssrc = c.fallback_ssrc
                      /\ r.mode = "requested" =>
                            /\ libHasRequest
                            /\ c.cmds = <<"request_channel">>
                            /\ c.created = << >>
                            /\ c.fallback_ssrc = << >>
                            /\ r.ssrc = << >>

\* A legacy create the daemon placed off the destination: not found afterwards.
C24_Witness ==
    \E p \in Procs :
        /\ ReturnedMode(p, {"created_fallback"})
        /\ call[p].lookupOk
        /\ \E ch \in daemon : <<ch.ssrc>> = call[p].result.ssrc

\* ------------------------------------------------------ snapshots of discover
\* A direct call of discover_channels, with or without a destination filter.
DiscoverStart(p) ==
    /\ call[p].pc = "idle"
    /\ \E d \in LookDests :
          SetCall(p, [IdleCall EXCEPT !.op = "discover", !.pc = "listen",
                                      !.rtp_destination = d])
    /\ ncalls' = ncalls + 1
    /\ UNCHANGED <<daemon, look, pending, nextSsrc, libHasRequest, prev>>

NextSnapshot ==
    \/ DiscoverStart("a")
    \/ DiscoverListen("a")

SpecSnapshot == InitLookup /\ [][NextSnapshot]_vars

====
